---- MODULE Spec2Model ----
(***************************************************************************)
(* sqlalchemy-dlock: the synchronous Lock state machine of lock/base.py    *)
(* and its four backends (lock/mysql.py, lock/postgresql.py,               *)
(* lock/mssql.py, lock/oracle.py) running against one database server.     *)
(*                                                                         *)
(* Two Lock objects, each on its own connection, use the same key in       *)
(* exclusive mode.  Time is a discrete clock; one tick is 1/TicksPerSecond *)
(* seconds.  The database decides grants and native time-outs at once; the *)
(* client threads run at their own pace.                                   *)
(***************************************************************************)
EXTENDS Integers, FiniteSets, Sequences, TLC

VARIABLES backend, acquired, held, pc, call, scope, last, owner, now,
          xact, warned, key, actual_key, lock_class, shared_connection

vars == <<backend, acquired, held, pc, call, scope, last, owner, now,
          xact, warned, key, actual_key, lock_class, shared_connection>>

(* ---------------------------- bounds ----------------------------------- *)
MaxClock == 4
MaxTimeout == 2
MaxInterval == 2
MaxHold == 2
TicksPerSecond == 2

(* ---------------------------- universe --------------------------------- *)
Backends == {"mysql", "postgresql", "mssql", "oracle"}
Locks == {"A", "B"}
Conns == {1, 2}
\* Python's None is the empty tuple, a number x is <<x>>.
NoneV == <<>>
Some(x) == <<x>>
Val(o) == o[1]

\* Each Lock object on a connection of its own, or both on connection 1.
connection_or_session(l) == IF l = "A" \/ shared_connection THEN 1 ELSE 2

TimeoutVals == {NoneV} \cup {Some(t) : t \in -1 .. MaxTimeout}
IntervalVals == {NoneV} \cup {Some(i) : i \in -1 .. MaxInterval}
\* Lock A is constructed without contextual_timeout, lock B with contextual_timeout=1 tick.
contextual_timeout == [l \in Locks |-> IF l = "A" THEN NoneV ELSE Some(1)]

SLEEP_INTERVAL_MIN == 1
SLEEP_INTERVAL_DEFAULT == TicksPerSecond
MAXWAIT == 32767

NoCall == [via |-> "none", timeout |-> 0, interval |-> 0, ts_begin |-> 0,
           wake |-> 0, deadline |-> NoneV, tries |-> 0, waited |-> FALSE]
NoOp == [op |-> "none", res |-> "none", sql |-> 0, waited |-> FALSE]
\* No Lock object is being constructed.
NoKey == [kind |-> "none"]

(* ---------------------------- replies ---------------------------------- *)
Reply(v) == [isNull |-> FALSE, val |-> v]
NullReply == [isNull |-> TRUE, val |-> 0]

(* ---------------------------- the registry ----------------------------- *)
REGISTRY ==
    [n \in {"mysql", "mariadb", "mssql", "oracle", "postgresql"} |->
        CASE n = "mysql" -> [module |-> ".lock.mysql", class |-> "MysqlSadLock"]
          [] n = "mariadb" -> [module |-> ".lock.mysql", class |-> "MysqlSadLock"]
          [] n = "mssql" -> [module |-> ".lock.mssql", class |-> "MssqlSadLock"]
          [] n = "oracle" -> [module |-> ".lock.oracle", class |-> "OracleSadLock"]
          [] OTHER -> [module |-> ".lock.postgresql", class |-> "PostgresqlSadLock"]]

ASYNCIO_REGISTRY ==
    [n \in {"mysql", "mariadb", "mssql", "oracle", "postgresql"} |->
        CASE n = "mysql" -> [module |-> ".lock.mysql", class |-> "MysqlAsyncSadLock"]
          [] n = "mariadb" -> [module |-> ".lock.mysql", class |-> "MysqlAsyncSadLock"]
          [] n = "mssql" -> [module |-> ".lock.mssql", class |-> "MssqlAsyncSadLock"]
          [] n = "oracle" -> [module |-> ".lock.oracle", class |-> "OracleAsyncSadLock"]
          [] OTHER -> [module |-> ".lock.postgresql", class |-> "PostgresqlAsyncSadLock"]]

\* A class found in a module, a raised exception, or nothing looked up yet.
PyClass(m, c) == [kind |-> "class", val |-> <<m, c>>]
LookupError(e) == [kind |-> "error", val |-> <<e>>]
NoClass == [kind |-> "none", val |-> <<>>]

\* find_lock_class that answers an unknown name with the MySQL class
find_lock_class_Fallback(engine_name, is_asyncio) ==
    LET reg == IF is_asyncio THEN ASYNCIO_REGISTRY ELSE REGISTRY
        conf == IF engine_name \in DOMAIN reg THEN reg[engine_name] ELSE reg["mysql"]
    IN  PyClass(conf.module, conf.class)

\* registry.py: "conf = reg[engine_name]" raises KeyError for a name that is not a
\* key of the table; else the class is taken from the module.
find_lock_class(engine_name, is_asyncio) ==
    LET reg == IF is_asyncio THEN ASYNCIO_REGISTRY ELSE REGISTRY
    IN  IF engine_name \in DOMAIN reg
        THEN PyClass(reg[engine_name].module, reg[engine_name].class)
        ELSE LookupError("KeyError")

\* The mixin that the class found for the connection inherits its key handling from.
Mixin ==
    IF lock_class.kind # "class" THEN "none"
    ELSE CASE lock_class.val[1] = ".lock.mysql" -> "mysql"
           [] lock_class.val[1] = ".lock.mssql" -> "mssql"
           [] lock_class.val[1] = ".lock.oracle" -> "oracle"
           [] OTHER -> "postgresql"

(* ---------------------------- the database ----------------------------- *)
\* An exclusive key is free for connection c when no other connection holds it.
Free(h, c) == \A d \in Conns \ {c} : h[d] = 0

\* Reply of the lock statement when the server decides: granted or not, at once
\* or after it made the request wait.
DbLockReply(h, c, granted, waited) ==
    CASE backend = "mysql" -> Reply(IF granted THEN 1 ELSE 0)
      [] backend = "postgresql" -> Reply(IF granted THEN 1 ELSE 0)
      [] backend = "mssql" -> Reply(IF granted THEN (IF waited THEN 1 ELSE 0) ELSE -1)
      [] OTHER -> Reply(IF h[c] > 0 THEN 4 ELSE IF granted THEN 0 ELSE 1)

\* Holds of the server after a granted lock statement of connection c.
DbLockHeld(h, c) ==
    IF backend = "oracle"
    THEN [h EXCEPT ![c] = 1]
    ELSE [h EXCEPT ![c] = h[c] + 1]

\* Reply of the unlock statement of connection c.
DbUnlockReply(h, c) ==
    CASE backend = "mysql" ->
            IF h[c] > 0 THEN Reply(1) ELSE IF Free(h, c) THEN NullReply ELSE Reply(0)
      [] backend = "postgresql" -> Reply(IF h[c] > 0 THEN 1 ELSE 0)
      [] backend = "mssql" -> Reply(IF h[c] > 0 THEN 0 ELSE -999)
      [] OTHER -> Reply(IF h[c] > 0 THEN 0 ELSE 4)

\* Holds of the server after the unlock statement of connection c.
DbUnlockHeld(h, c) ==
    IF h[c] = 0 THEN h
    ELSE IF backend = "oracle" THEN [h EXCEPT ![c] = 0]
    ELSE [h EXCEPT ![c] = h[c] - 1]

(* ---------------------------- the client code ------------------------- *)
\* acquire that reads a locked state shared by all threads and objects
AcquireGuard_Shared(l) == \E m \in Locks : acquired[m]

\* acquire without its check of the locked state
AcquireGuard_Unchecked(l) == FALSE

\* base.py: "if self._acquired: raise ValueError('invoked on a locked lock')"
AcquireGuard(l) == acquired[l]

\* release that reads a locked state shared by all threads and objects
ReleaseGuard_Shared(l) == \A m \in Locks : ~acquired[m]

\* release without its check of the locked state
ReleaseGuard_Unchecked(l) == FALSE

\* base.py: "if not self._acquired: raise ValueError('invoked on an unlocked lock')"
ReleaseGuard(l) == ~acquired[l]

\* close that calls release whatever the locked state
CloseGuard_Always(l) == TRUE

\* base.py: "if self._acquired: self.release()"
CloseGuard(l) == acquired[l]

\* "negative value for `timeout` are equivalent to a `timeout` of zero"
NormalizeTimeout(t) == IF t < 0 THEN 0 ELSE t

\* PostgreSQL emulates a bounded wait by polling; every other case is one statement.
UsesPoll(block, timeout) == backend = "postgresql" /\ block /\ timeout # NoneV

\* The wait parameter of the lock statement, in the backend's own unit
\* (mysql: ticks as given, mssql: milliseconds, oracle: whole seconds,
\* postgresql: -1 for pg_advisory_lock, 0 for pg_try_advisory_lock).
TimeoutParam(block, timeout) ==
    CASE backend = "mysql" ->
            IF block
            THEN IF timeout = NoneV THEN -1 ELSE NormalizeTimeout(Val(timeout))
            ELSE 0
      [] backend = "mssql" ->
            IF block
            THEN IF timeout = NoneV THEN -1
                 ELSE IF Val(timeout) < 0 THEN 0
                 ELSE (Val(timeout) * 1000) \div TicksPerSecond
            ELSE 0
      [] backend = "oracle" ->
            IF block
            THEN IF timeout = NoneV THEN MAXWAIT
                 ELSE IF Val(timeout) < 0 THEN 0
                 ELSE IF Val(timeout) > MAXWAIT * TicksPerSecond THEN MAXWAIT
                 ELSE Val(timeout) \div TicksPerSecond
            ELSE 0
      [] OTHER -> IF block THEN -1 ELSE 0

\* How long the server waits for that parameter, in ticks (NoneV: for ever).
DbWaitTicks(param) ==
    CASE backend = "mysql" -> IF param < 0 THEN NoneV ELSE Some(param)
      [] backend = "mssql" ->
            IF param < 0 THEN NoneV ELSE Some((param * TicksPerSecond) \div 1000)
      [] backend = "oracle" ->
            IF param >= MAXWAIT THEN NoneV ELSE Some(param * TicksPerSecond)
      [] OTHER -> IF param < 0 THEN NoneV ELSE Some(0)

\* acquire that does not read the reply of the lock statement
AcquireResult_Unread(block, ret) == "True"

\* acquire that takes every reply other than a success code for a denial
AcquireResult_Lenient(block, ret) ==
    CASE backend = "mysql" -> IF ~ret.isNull /\ ret.val = 1 THEN "True" ELSE "False"
      [] backend = "postgresql" ->
            IF block THEN "True"
            ELSE IF ~ret.isNull /\ ret.val # 0 THEN "True" ELSE "False"
      [] backend = "mssql" -> IF ret.val >= 0 THEN "True" ELSE "False"
      [] OTHER -> IF ret.val \in {0, 4} THEN "True" ELSE "False"

\* acquire that takes only the reply "granted at once" for a success, and reports a
\* grant that came after a wait as a timeout
AcquireResult_WaitedIsDenied(block, ret) ==
    CASE backend = "mysql" ->
            IF ret.isNull THEN "DatabaseError"
            ELSE IF ret.val = 1 THEN "True"
            ELSE IF ret.val = 0 THEN "False"
            ELSE "DatabaseError"
      [] backend = "postgresql" ->
            IF block THEN "True"
            ELSE IF ~ret.isNull /\ ret.val # 0 THEN "True" ELSE "False"
      [] backend = "mssql" ->
            IF ret.val = 0 THEN "True"
            ELSE IF ret.val \in {-1, 1} THEN "False"
            ELSE "DatabaseError"
      [] OTHER ->
            IF ret.val = 0 THEN "True"
            ELSE IF ret.val = 1 THEN "False"
            ELSE IF ret.val = 4 THEN "True"
            ELSE "DatabaseError"

\* What acquire returns or raises for a reply of the lock statement.
AcquireResult(block, ret) ==
    CASE backend = "mysql" ->
            IF ret.isNull THEN "DatabaseError"
            ELSE IF ret.val = 1 THEN "True"
            ELSE IF ret.val = 0 THEN "False"
            ELSE "DatabaseError"
      [] backend = "postgresql" ->
            IF block THEN "True"
            ELSE IF ~ret.isNull /\ ret.val # 0 THEN "True" ELSE "False"
      [] backend = "mssql" ->
            IF ret.val >= 0 THEN "True"
            ELSE IF ret.val = -1 THEN "False"
            ELSE "DatabaseError"
      [] OTHER ->
            IF ret.val = 0 THEN "True"
            ELSE IF ret.val = 1 THEN "False"
            ELSE IF ret.val = 4 THEN "True"
            ELSE "DatabaseError"

\* acquire that stores what do_acquire returned in _acquired
AcquiredAfterAcquire_Assigned(l, ret) ==
    IF backend = "mysql"
    THEN IF ~ret.isNull /\ ret.val = 1 THEN TRUE ELSE acquired[l]
    ELSE IF backend = "postgresql"
    THEN IF ~ret.isNull /\ ret.val # 0 THEN TRUE ELSE acquired[l]
    ELSE IF backend = "mssql"
    THEN IF ret.val >= 0 THEN TRUE ELSE acquired[l]
    ELSE IF ret.val \in {0, 4} THEN TRUE ELSE acquired[l]

\* The value of _acquired when acquire has interpreted the reply: MysqlSadLock.acquire
\* sets it on reply 1; BaseSadLock.acquire returns do_acquire's value and assigns nothing.
AcquiredAfterAcquire(l, ret) ==
    IF backend = "mysql"
    THEN IF ~ret.isNull /\ ret.val = 1 THEN TRUE ELSE acquired[l]
    ELSE acquired[l]

\* release that ignores the reply of the unlock statement
ReleaseResult_Silent(ret) == "ok"

\* What release returns or raises for a reply of the unlock statement.
ReleaseResult(ret) ==
    CASE backend = "mysql" -> IF ~ret.isNull /\ ret.val = 1 THEN "ok" ELSE "DatabaseError"
      [] backend = "postgresql" -> IF ~ret.isNull /\ ret.val # 0 THEN "ok" ELSE "DatabaseError"
      [] backend = "mssql" -> IF ret.val < 0 THEN "DatabaseError" ELSE "ok"
      [] OTHER -> IF ret.val = 0 THEN "ok" ELSE "DatabaseError"

\* release that clears _acquired only when the server confirms the release
AcquiredAfterRelease_OnSuccess(l, ret) ==
    IF backend = "mysql"
    THEN IF ~ret.isNull /\ ret.val = 1 THEN FALSE ELSE acquired[l]
    ELSE acquired[l]

\* release that leaves _acquired as it is
AcquiredAfterRelease_Kept(l, ret) == acquired[l]

\* The value of _acquired when release has interpreted the reply: MysqlSadLock.release
\* clears it on 1, 0 and NULL; the do_release of the other backends assigns nothing.
AcquiredAfterRelease(l, ret) ==
    IF backend = "mysql"
    THEN IF ret.isNull \/ ret.val = 1 \/ ret.val = 0 THEN FALSE ELSE acquired[l]
    ELSE acquired[l]

\* the expiry test one tick early: "time() - ts_begin >= timeout - 1"
Expired_Early(t, ts_begin, timeout) == t - ts_begin >= timeout - 1

\* the expiry test one tick late: "time() - ts_begin > timeout + 1"
Expired_Late(t, ts_begin, timeout) == t - ts_begin > timeout + 1

\* the expiry test with its operands swapped: "ts_begin - time() > timeout"
Expired_Swapped(t, ts_begin, timeout) == ts_begin - t > timeout

\* postgresql.py: "if time() - ts_begin > timeout:  # expired"
Expired(t, ts_begin, timeout) == t - ts_begin > timeout

\* the polling loop entered whatever the interval
IntervalTooSmall_Never(interval) == FALSE

\* postgresql.py: "if interval < SLEEP_INTERVAL_MIN: raise ValueError"
IntervalTooSmall(interval) == interval < SLEEP_INTERVAL_MIN

\* __enter__: acquire() when contextual_timeout is None, else TimeoutError on a false acquire.
EnterOutcome(l, res) ==
    IF res \in {"True", "False"}
    THEN IF contextual_timeout[l] = NoneV THEN "ok"
         ELSE IF res = "True" THEN "ok" ELSE "Timeout"
    ELSE res

(* ---------------------------- model bounds in guards -------------------- *)
\* Ticks the clock must still be able to make for the call to run to its end.
ClockNeed(block, timeout, interval) ==
    IF UsesPoll(block, timeout)
    THEN NormalizeTimeout(Val(timeout))
         + (IF interval = NoneV THEN SLEEP_INTERVAL_DEFAULT
            ELSE IF Val(interval) < 0 THEN 0 ELSE Val(interval))
    ELSE LET w == DbWaitTicks(TimeoutParam(block, timeout)) IN
         IF w = NoneV THEN 0 ELSE Val(w)

CanStart(l, block, timeout, interval) ==
    /\ now + ClockNeed(block, timeout, interval) <= MaxClock
    /\ held[connection_or_session(l)] < MaxHold

Init ==
    /\ backend \in Backends
    /\ acquired = [l \in Locks |-> FALSE]
    /\ held = [c \in Conns |-> 0]
    /\ pc = [l \in Locks |-> "idle"]
    /\ call = [l \in Locks |-> NoCall]
    /\ scope = [l \in Locks |-> "out"]
    /\ last = [l \in Locks |-> NoOp]
    /\ owner = [l \in Locks |-> "no"]
    /\ now = 0
    /\ xact = FALSE
    /\ warned = [l \in Locks |-> FALSE]
    /\ key = NoKey
    /\ actual_key = NoKey
    /\ lock_class = find_lock_class(backend, FALSE)
    /\ shared_connection = FALSE

(* ---------------------------- operations ------------------------------ *)
\* An operation of lock l returns or raises: its result is recorded in last[l].
\* owner[l] remembers what the caller was told: "yes" since an acquire returned True,
\* "released" once release, close or __exit__ has been called after that, "no" otherwise.
Complete(l, op, res, sql, waited, acq, h, sc, own, warn) ==
    /\ acquired' = [acquired EXCEPT ![l] = acq]
    /\ owner' = [owner EXCEPT ![l] = own]
    /\ held' = h
    /\ pc' = [pc EXCEPT ![l] = "idle"]
    /\ call' = [call EXCEPT ![l] = NoCall]
    /\ scope' = [scope EXCEPT ![l] = sc]
    /\ last' = [last EXCEPT ![l] = [op |-> op, res |-> res, sql |-> sql, waited |-> waited]]
    /\ warned' = [warned EXCEPT ![l] = warn]
    /\ UNCHANGED <<backend, now, xact, key, actual_key, lock_class, shared_connection>>

Told(l, res) == IF res = "True" \/ owner[l] = "yes" THEN "yes" ELSE "no"

\* acquire returns or raises, to its caller or to __enter__.
Finish(l, via, res, sql, waited, acq, h) ==
    IF via = "enter"
    THEN Complete(l, "enter", EnterOutcome(l, res), sql, waited, acq, h,
                  IF EnterOutcome(l, res) = "ok" THEN "body" ELSE "out", Told(l, res), FALSE)
    ELSE Complete(l, "acquire", res, sql, waited, acq, h, scope[l], Told(l, res), FALSE)

\* The lock statement got its reply.
Replied(l, via, block, ret, sql, waited, h) ==
    Finish(l, via, AcquireResult(block, ret), sql, waited, AcquiredAfterAcquire(l, ret), h)

\* The call is suspended: in the server (blocked) or between two polls (polled).
Suspend(l, where, c) ==
    /\ pc' = [pc EXCEPT ![l] = where]
    /\ call' = [call EXCEPT ![l] = c]
    /\ UNCHANGED <<backend, acquired, held, scope, last, owner, now,
                   xact, warned, key, actual_key, lock_class, shared_connection>>

\* acquire(block, timeout, interval), called directly or by __enter__.
AcquireCall(l, via, block, timeout, interval) ==
    /\ pc[l] = "idle"
    /\ CanStart(l, block, timeout, interval)
    /\ LET c == connection_or_session(l) IN
       IF AcquireGuard(l)
       THEN Finish(l, via, "AlreadyLocked", 0, FALSE, acquired[l], held)
       ELSE IF UsesPoll(block, timeout)
       THEN LET T == NormalizeTimeout(Val(timeout))
                I == IF interval = NoneV THEN SLEEP_INTERVAL_DEFAULT ELSE Val(interval)
            IN  IF IntervalTooSmall(I)
                THEN Finish(l, via, "InvalidInterval", 0, FALSE, acquired[l], held)
                ELSE IF Free(held, c)
                THEN Replied(l, via, FALSE, DbLockReply(held, c, TRUE, FALSE), 1, FALSE,
                             DbLockHeld(held, c))
                ELSE Suspend(l, "polled",
                             [via |-> via, timeout |-> T, interval |-> I, ts_begin |-> now,
                              wake |-> 0, deadline |-> NoneV, tries |-> 1, waited |-> FALSE])
       ELSE LET w == DbWaitTicks(TimeoutParam(block, timeout))
            IN  IF Free(held, c)
                THEN Replied(l, via, block, DbLockReply(held, c, TRUE, FALSE), 1, FALSE,
                             DbLockHeld(held, c))
                ELSE IF w = Some(0)
                THEN Replied(l, via, block, DbLockReply(held, c, FALSE, FALSE), 1, FALSE, held)
                ELSE Suspend(l, "blocked",
                             [via |-> via,
                              timeout |-> IF timeout = NoneV THEN 0
                                          ELSE NormalizeTimeout(Val(timeout)),
                              interval |-> 0, ts_begin |-> now, wake |-> 0,
                              deadline |-> IF w = NoneV THEN NoneV ELSE Some(now + Val(w)),
                              tries |-> 1, waited |-> TRUE])

Acquire(l) ==
    \E block \in BOOLEAN, timeout \in TimeoutVals, interval \in IntervalVals :
        /\ UsesPoll(block, timeout) \/ interval = NoneV
        /\ AcquireCall(l, "direct", block, timeout, interval)

\* __enter__: acquire() or acquire(timeout=contextual_timeout).
Enter(l) ==
    /\ scope[l] = "out"
    /\ AcquireCall(l, "enter", TRUE, contextual_timeout[l], NoneV)

\* The polling loop after a denied try: give up when expired, else sleep(interval).
PollCheck(l) ==
    /\ pc[l] = "polled"
    /\ IF Expired(now, call[l].ts_begin, call[l].timeout)
       THEN Finish(l, call[l].via, "False", call[l].tries, call[l].waited, acquired[l], held)
       ELSE Suspend(l, "sleeping",
                    [call[l] EXCEPT !.wake = now + call[l].interval, !.waited = TRUE])

\* The polling loop after sleep(interval): the next try.
PollWake(l) ==
    /\ pc[l] = "sleeping"
    /\ now >= call[l].wake
    /\ LET c == connection_or_session(l) IN
       IF Free(held, c)
       THEN Replied(l, call[l].via, FALSE, DbLockReply(held, c, TRUE, FALSE),
                    call[l].tries + 1, call[l].waited, DbLockHeld(held, c))
       ELSE Suspend(l, "polled", [call[l] EXCEPT !.tries = call[l].tries + 1])

\* The server grants a waiting lock statement as soon as the key is free.
DbGrant(l) ==
    /\ pc[l] = "blocked"
    /\ Free(held, connection_or_session(l))
    /\ LET c == connection_or_session(l) IN
       Replied(l, call[l].via, TRUE, DbLockReply(held, c, TRUE, TRUE), call[l].tries,
               call[l].waited, DbLockHeld(held, c))

\* The server answers a waiting lock statement when its wait is over.
DbTimeout(l) ==
    /\ pc[l] = "blocked"
    /\ call[l].deadline # NoneV
    /\ now >= Val(call[l].deadline)
    /\ ~Free(held, connection_or_session(l))
    /\ LET c == connection_or_session(l) IN
       Replied(l, call[l].via, TRUE, DbLockReply(held, c, FALSE, TRUE), call[l].tries,
               call[l].waited, held)

\* What release does once its guard has passed: one unlock statement, or, for a
\* PostgreSQL transaction-level lock (no unlock statement), a RuntimeWarning.
ReleaseOutcome(l) ==
    LET c == connection_or_session(l)
        ret == DbUnlockReply(held, c)
    IN  IF backend = "postgresql" /\ xact
        THEN [res |-> "ok", acq |-> acquired[l], held |-> held, sql |-> 0, warn |-> TRUE]
        ELSE [res |-> ReleaseResult(ret), acq |-> AcquiredAfterRelease(l, ret),
              held |-> DbUnlockHeld(held, c), sql |-> 1, warn |-> FALSE]

Called(l) == IF owner[l] = "yes" THEN "released" ELSE owner[l]

\* PostgresqlSadLock.close calls release inside "with catch_warnings():" (before
\* Python 3.11) or "with catch_warnings(category=RuntimeWarning):".  Without an
\* action the context manager installs no filter and only restores the filters when
\* it is left: a warning emitted inside is shown as it is outside.
catch_warnings(w) == w

\* release(), called directly or by close()
ReleaseCall(l, op, sc) ==
    IF ReleaseGuard(l)
    THEN Complete(l, op, "NotLocked", 0, FALSE, acquired[l], held, sc, Called(l), FALSE)
    ELSE LET o == ReleaseOutcome(l) IN
         Complete(l, op, o.res, o.sql, FALSE, o.acq, o.held, sc, Called(l),
                  IF op = "release" THEN o.warn ELSE catch_warnings(o.warn))

Release(l) ==
    /\ pc[l] = "idle"
    /\ ReleaseCall(l, "release", scope[l])

\* close(): release() when locked, nothing otherwise.
CloseCall(l, op, sc) ==
    IF CloseGuard(l)
    THEN ReleaseCall(l, op, sc)
    ELSE Complete(l, op, "ok", 0, FALSE, acquired[l], held, sc, Called(l), FALSE)

Close(l) ==
    /\ pc[l] = "idle"
    /\ CloseCall(l, "close", scope[l])

\* __exit__: close(), whether the body ended normally or raised.
Exit(l) ==
    /\ pc[l] = "idle"
    /\ scope[l] = "body"
    /\ \E raised \in BOOLEAN :
          CloseCall(l, IF raised THEN "exit_raised" ELSE "exit", "out")

\* Time passes, but never past a reply the server owes.
Tick ==
    /\ now < MaxClock
    /\ \A l \in Locks :
          pc[l] = "blocked" =>
             /\ ~Free(held, connection_or_session(l))
             /\ IF call[l].deadline = NoneV THEN TRUE ELSE now < Val(call[l].deadline)
    /\ now' = now + 1
    /\ UNCHANGED <<backend, acquired, held, pc, call, scope, last, owner,
                   xact, warned, key, actual_key, lock_class, shared_connection>>

Next ==
    \/ Tick
    \/ \E l \in Locks : Acquire(l)
    \/ \E l \in Locks : Enter(l)
    \/ \E l \in Locks : PollCheck(l)
    \/ \E l \in Locks : PollWake(l)
    \/ \E l \in Locks : DbGrant(l)
    \/ \E l \in Locks : DbTimeout(l)
    \/ \E l \in Locks : Release(l)
    \/ \E l \in Locks : Close(l)
    \/ \E l \in Locks : Exit(l)

Spec == Init /\ [][Next]_vars

TypeOK ==
    /\ backend \in Backends
    /\ acquired \in [Locks -> BOOLEAN]
    /\ held \in [Conns -> 0 .. MaxHold]
    /\ pc \in [Locks -> {"idle", "blocked", "polled", "sleeping"}]
    /\ scope \in [Locks -> {"out", "body"}]
    /\ owner \in [Locks -> {"no", "yes", "released"}]
    /\ now \in 0 .. MaxClock
    /\ xact \in BOOLEAN
    /\ warned \in [Locks -> BOOLEAN]

(* ---------------------------- faults --------------------------------- *)
\* Replies of the lock statement that are neither a success nor a denial: MySQL
\* NULL or a value other than 0 and 1, MSSQL -2 (canceled), -3 (parameter error),
\* -999 and other negatives, Oracle 2 (deadlock), 3 (parameter error), 5 (illegal
\* lock id) and unlisted codes.  The PostgreSQL functions answer true or false only.
AbnormalReplies ==
    CASE backend = "mysql" -> {NullReply, Reply(-1), Reply(2)}
      [] backend = "mssql" -> {Reply(-2), Reply(-3), Reply(-999), Reply(-4)}
      [] backend = "oracle" -> {Reply(2), Reply(3), Reply(5), Reply(6)}
      [] OTHER -> {}

\* acquire whose lock statement gets an abnormal reply.
AcquireAbnormal(l) ==
    /\ pc[l] = "idle"
    /\ ~AcquireGuard(l)
    /\ \E block \in BOOLEAN, ret \in AbnormalReplies :
          Replied(l, "direct", block, ret, 1, FALSE, held)

\* The server drops the holds of a session without the Lock object taking part:
\* the session ended or was reset, or the key was unlocked by other code.
HoldsDropped(c) ==
    /\ held[c] > 0
    /\ held' = [held EXCEPT ![c] = 0]
    /\ UNCHANGED <<backend, acquired, pc, call, scope, last, owner, now,
                   xact, warned, key, actual_key, lock_class, shared_connection>>

\* acquire and release called directly, with the faults of the server.
FaultNext ==
    \/ Tick
    \/ \E l \in Locks : Acquire(l)
    \/ \E l \in Locks : PollCheck(l)
    \/ \E l \in Locks : PollWake(l)
    \/ \E l \in Locks : DbGrant(l)
    \/ \E l \in Locks : DbTimeout(l)
    \/ \E l \in Locks : Release(l)
    \/ \E l \in Locks : AcquireAbnormal(l)
    \/ \E c \in Conns : HoldsDropped(c)

FaultSpec == Init /\ [][FaultNext]_vars

(* ---------------------------- transaction-level locks ------------------ *)
\* PostgreSQL with xact=True: the lock statements are the pg_*_xact_* ones, there
\* is no unlock statement, and the server holds the key until the transaction ends.
XactInit ==
    /\ backend = "postgresql"
    /\ acquired = [l \in Locks |-> FALSE]
    /\ held = [c \in Conns |-> 0]
    /\ pc = [l \in Locks |-> "idle"]
    /\ call = [l \in Locks |-> NoCall]
    /\ scope = [l \in Locks |-> "out"]
    /\ last = [l \in Locks |-> NoOp]
    /\ owner = [l \in Locks |-> "no"]
    /\ now = 0
    /\ xact = TRUE
    /\ warned = [l \in Locks |-> FALSE]
    /\ key = NoKey
    /\ actual_key = NoKey
    /\ lock_class = find_lock_class(backend, FALSE)
    /\ shared_connection = FALSE

\* The transaction of connection c commits or rolls back: the server drops its
\* transaction-level holds.  The Lock objects are not told.
Commit(c) ==
    /\ xact
    /\ held[c] > 0
    /\ \A l \in Locks : connection_or_session(l) = c => pc[l] = "idle"
    /\ held' = [held EXCEPT ![c] = 0]
    /\ UNCHANGED <<backend, acquired, pc, call, scope, last, owner, now,
                   xact, warned, key, actual_key, lock_class, shared_connection>>

\* acquire(block) without a timeout: one lock statement, waiting in the server if
\* it blocks.
AcquireNoTimeout(l) ==
    \E block \in BOOLEAN : AcquireCall(l, "direct", block, NoneV, NoneV)

\* acquire, release and close called directly, and the end of transactions.
XactNext ==
    \/ \E l \in Locks : AcquireNoTimeout(l)
    \/ \E l \in Locks : DbGrant(l)
    \/ \E l \in Locks : Release(l)
    \/ \E l \in Locks : Close(l)
    \/ \E c \in Conns : Commit(c)

XactSpec == XactInit /\ [][XactNext]_vars

(* ---------------------------- connection errors ------------------------ *)
\* a handler that clears _acquired before it executes its statement
AcquiredOnError_Cleared(l) == FALSE

\* connection_or_session.execute(stmt) raises: the lines after it do not run, and
\* no line before it assigns _acquired.
AcquiredOnError(l) == acquired[l]

\* acquire whose lock statement makes the connection raise (the connection was
\* closed, the statement could not be sent): the exception leaves acquire.
AcquireConnError(l) ==
    /\ pc[l] = "idle"
    /\ ~AcquireGuard(l)
    /\ Finish(l, "direct", "ConnectionError", 1, FALSE, AcquiredOnError(l), held)

\* release whose unlock statement makes the connection raise.
ReleaseConnError(l) ==
    /\ pc[l] = "idle"
    /\ ~ReleaseGuard(l)
    /\ ~(backend = "postgresql" /\ xact)
    /\ Complete(l, "release", "ConnectionError", 1, FALSE, AcquiredOnError(l), held,
                scope[l], Called(l), FALSE)

\* acquire(block) and release called directly, with connections that may raise.
ConnNext ==
    \/ \E l \in Locks : AcquireNoTimeout(l)
    \/ \E l \in Locks : DbGrant(l)
    \/ \E l \in Locks : Release(l)
    \/ \E l \in Locks : AcquireConnError(l)
    \/ \E l \in Locks : ReleaseConnError(l)

ConnSpec == Init /\ [][ConnNext]_vars

(* ---------------------------- one connection, two lock states ---------- *)
\* Both Lock states live on connection 1 with the same key: two Lock objects made
\* on one connection, or one Lock object used from two threads.  BaseSadLock
\* derives from threading.local, so a second thread that touches the object runs
\* __init__ again with the arguments of the constructor and gets attributes of its
\* own, _acquired = False among them.
SameConnInit ==
    /\ backend \in Backends
    /\ acquired = [l \in Locks |-> FALSE]
    /\ held = [c \in Conns |-> 0]
    /\ pc = [l \in Locks |-> "idle"]
    /\ call = [l \in Locks |-> NoCall]
    /\ scope = [l \in Locks |-> "out"]
    /\ last = [l \in Locks |-> NoOp]
    /\ owner = [l \in Locks |-> "no"]
    /\ now = 0
    /\ xact = FALSE
    /\ warned = [l \in Locks |-> FALSE]
    /\ key = NoKey
    /\ actual_key = NoKey
    /\ lock_class = find_lock_class(backend, FALSE)
    /\ shared_connection = TRUE

\* With no other connection nothing ever waits: every statement is answered at once.
SameConnNext ==
    \/ \E l \in Locks : Acquire(l)
    \/ \E l \in Locks : Release(l)
    \/ \E l \in Locks : Close(l)

SameConnSpec == SameConnInit /\ [][SameConnNext]_vars

(* ---------------------------- keys ----------------------------------- *)
ORACLE_LOCK_ID_MIN == 0
ORACLE_LOCK_ID_MAX == 1073741823

\* A Python int, of any size, is written in base 2^30: <<a, b, c>> stands for
\* a * 2^60 + b * 2^30 + c, with 0 <= b, c < 2^30 and a of either sign.
Limb == ORACLE_LOCK_ID_MAX + 1
Big(a, b, c) == <<a, b, c>>
Less(x, y) ==
    \/ x[1] < y[1]
    \/ x[1] = y[1] /\ x[2] < y[2]
    \/ x[1] = y[1] /\ x[2] = y[2] /\ x[3] < y[3]

\* 0x7FFF_FFFF_FFFF_FFFF and -0x8000_0000_0000_0000
INT64_MAX == Big(7, Limb - 1, Limb - 1)
INT64_MIN == Big(-8, 0, 0)

\* Python values: an int, a str, bytes, a float (by its text), or a raised exception.
PyInt(x) == [kind |-> "int", val |-> x]
PyStr(t) == [kind |-> "str", val |-> <<t>>]
PyBytes(t) == [kind |-> "bytes", val |-> <<t>>]
PyFloat(t) == [kind |-> "float", val |-> <<t>>]
Raised(e) == [kind |-> "error", val |-> <<e>>]

\* blake2b(d, digest_size=8).digest() read as an unsigned 64-bit integer; the
\* digests of the texts used here are fixed, arbitrary 64-bit values.
blake2b(d) ==
    CASE d = "lock" -> Big(3, 17, 5)
      [] d = "job" -> Big(12, Limb - 1, 0)
      [] OTHER -> Big(15, 0, Limb - 1)

\* int.from_bytes(h, sys.byteorder, signed=True) of an 8-byte digest
int_from_bytes_signed(h) == IF h[1] >= 8 THEN Big(h[1] - 16, h[2], h[3]) ELSE h

\* i % (ORACLE_LOCK_ID_MAX + 1), Python's modulo: never negative
ModLockId(i) == Big(0, 0, i[3])

\* PostgresqlSadLockMixin.convert
postgresql_convert(k) ==
    CASE k.kind = "int" -> k
      [] k.kind \in {"str", "bytes"} -> PyInt(int_from_bytes_signed(blake2b(k.val[1])))
      [] OTHER -> Raised("TypeError")

\* ensure_int64 that folds a too big integer into the signed range
ensure_int64_Wrapping(i) ==
    IF i.kind # "int" THEN Raised("TypeError")
    ELSE IF Less(INT64_MAX, i.val) THEN PyInt(Big(i.val[1] - 16, i.val[2], i.val[3]))
    ELSE IF Less(i.val, INT64_MIN) THEN Raised("OverflowError")
    ELSE i

\* ensure_int64 that reads a too big integer as an unsigned 64-bit one: it becomes
\* i - 2^64 when it fits 8 bytes, else to_bytes raises OverflowError
ensure_int64_Unsigned(i) ==
    IF i.kind # "int" THEN Raised("TypeError")
    ELSE IF Less(INT64_MAX, i.val)
    THEN IF i.val[1] <= 15 THEN PyInt(Big(i.val[1] - 16, i.val[2], i.val[3]))
         ELSE Raised("OverflowError")
    ELSE IF Less(i.val, INT64_MIN) THEN Raised("OverflowError")
    ELSE i

\* PostgresqlSadLockMixin.ensure_int64
ensure_int64(i) ==
    IF i.kind # "int" THEN Raised("TypeError")
    ELSE IF Less(INT64_MAX, i.val) THEN Raised("OverflowError")
    ELSE IF Less(i.val, INT64_MIN) THEN Raised("OverflowError")
    ELSE i

\* OracleSadLockMixin.convert
oracle_convert(k) ==
    CASE k.kind = "int" -> k
      [] k.kind \in {"str", "bytes", "float"} -> PyInt(ModLockId(blake2b(k.val[1])))
      [] OTHER -> Raised("TypeError")

\* ensure_valid_id that folds only the integers above the range
ensure_valid_id_UpperOnly(i) ==
    IF i.kind # "int" THEN Raised("TypeError")
    ELSE IF Less(Big(0, 0, ORACLE_LOCK_ID_MAX), i.val) THEN PyInt(ModLockId(i.val))
    ELSE i

\* OracleSadLockMixin.ensure_valid_id
ensure_valid_id(i) ==
    IF i.kind # "int" THEN Raised("TypeError")
    ELSE IF Less(i.val, Big(0, 0, ORACLE_LOCK_ID_MIN))
            \/ Less(Big(0, 0, ORACLE_LOCK_ID_MAX), i.val)
    THEN PyInt(ModLockId(i.val))
    ELSE i

\* str(k) of an int that fits one limb, in decimal.
Digit(d) == <<"0", "1", "2", "3", "4", "5", "6", "7", "8", "9">>[d + 1]

RECURSIVE Decimal(_)
Decimal(n) == IF n < 10 THEN Digit(n) ELSE Decimal(n \div 10) \o Digit(n % 10)

str_int(i) ==
    IF i[1] = -1 /\ i[2] = Limb - 1
    THEN "-" \o Decimal(Limb - i[3])
    ELSE Decimal(i[3])

MYSQL_LOCK_NAME_MAX_LENGTH == 64
MSSQL_LOCK_RESOURCE_MAX_LENGTH == 255

\* MysqlSadLockMixin.convert that turns a key of any type into its text
mysql_convert_AnyType(k) ==
    CASE k.kind = "str" -> k
      [] k.kind = "int" -> PyStr(str_int(k.val))
      [] k.kind \in {"float", "bytes"} -> PyStr(k.val[1])
      [] OTHER -> PyStr(k.kind)

\* MysqlSadLockMixin.convert: a str as it is, str(k) of an int or a float, the
\* decoded text of bytes; TypeError for any other type.
mysql_convert(k) ==
    CASE k.kind = "str" -> k
      [] k.kind = "int" -> PyStr(str_int(k.val))
      [] k.kind = "float" -> PyStr(k.val[1])
      [] k.kind = "bytes" -> PyStr(k.val[1])
      [] OTHER -> Raised("TypeError")

\* MssqlSadLockMixin.convert
mssql_convert(k) ==
    CASE k.kind = "str" -> k
      [] k.kind = "int" -> PyStr(str_int(k.val))
      [] k.kind = "float" -> PyStr(k.val[1])
      [] k.kind = "bytes" -> PyStr(k.val[1])
      [] OTHER -> Raised("TypeError")

\* __init__ of the name-based mixins: "if not isinstance(self._actual_key, str):
\* raise TypeError", "if len(self._actual_key) > MAX: raise ValueError"
ensure_name(s, max) ==
    IF s.kind # "str" THEN Raised("TypeError")
    ELSE IF Len(s.val[1]) > max THEN Raised("ValueError")
    ELSE s

\* The longest name of the backend.
NameMax ==
    IF Mixin = "mysql" THEN MYSQL_LOCK_NAME_MAX_LENGTH ELSE MSSQL_LOCK_RESOURCE_MAX_LENGTH

NameBased == Mixin \in {"mysql", "mssql"}

\* The default conversion of the backend's mixin.
DefaultConvert(k) ==
    CASE Mixin = "postgresql" -> postgresql_convert(k)
      [] Mixin = "oracle" -> oracle_convert(k)
      [] Mixin = "mysql" -> mysql_convert(k)
      [] OTHER -> mssql_convert(k)

\* __init__ that applies the default conversion whether convert is given or not
ActualKey_IgnoresConvert(k) ==
    LET converted == DefaultConvert(k.key)
    IN  IF converted.kind = "error" THEN converted
        ELSE CASE Mixin = "postgresql" -> ensure_int64(converted)
               [] Mixin = "oracle" -> ensure_valid_id(converted)
               [] OTHER -> ensure_name(converted, NameMax)

\* __init__ of the mixin: the custom convert if given, else the default one, then
\* the check of the result.  k.convert is None or what the custom function returns
\* for k.key.
ActualKey(k) ==
    LET converted == IF k.convert # NoneV THEN Val(k.convert) ELSE DefaultConvert(k.key)
    IN  IF converted.kind = "error" THEN converted
        ELSE CASE Mixin = "postgresql" -> ensure_int64(converted)
               [] Mixin = "oracle" -> ensure_valid_id(converted)
               [] OTHER -> ensure_name(converted, NameMax)

\* Integers around 0, around both ends of the signed 64-bit range, around the end
\* of the unsigned 64-bit range and of the Oracle range, and beyond.
IntKeys ==
    {Big(a, b, c) : a \in {-9, -8, -1, 0, 7, 8, 15, 16}, b \in {0, Limb - 1}, c \in {0, 1, Limb - 1}}

\* A text of n characters.
RECURSIVE Chars(_)
Chars(n) ==
    IF n = 0 THEN ""
    ELSE IF n % 2 = 0 THEN LET half == Chars(n \div 2) IN half \o half
    ELSE Chars(n - 1) \o "k"

\* Lengths around the longest name of each name-based backend.
NameLengths ==
    {1, MYSQL_LOCK_NAME_MAX_LENGTH - 1, MYSQL_LOCK_NAME_MAX_LENGTH,
     MYSQL_LOCK_NAME_MAX_LENGTH + 1, MSSQL_LOCK_RESOURCE_MAX_LENGTH - 1,
     MSSQL_LOCK_RESOURCE_MAX_LENGTH, MSSQL_LOCK_RESOURCE_MAX_LENGTH + 1}

\* tuple(), dict(), set(), list(), object()
WrongTypeKeys ==
    {[kind |-> t, val |-> <<>>] : t \in {"tuple", "dict", "set", "list", "object"}}

\* Keys for the backends that lock an integer.
IntKeyInputs ==
    {[key |-> PyInt(i), convert |-> NoneV] : i \in IntKeys}
    \cup {[key |-> PyStr("lock"), convert |-> Some(PyInt(i))] : i \in IntKeys}
    \cup {[key |-> k, convert |-> NoneV] :
             k \in {PyStr("lock"), PyStr("job"), PyBytes("lock"), PyFloat("1.5")}}
    \cup {[key |-> PyInt(Big(0, 0, 1)), convert |-> Some(PyStr("lock"))]}
    \cup {[key |-> k, convert |-> Some(PyInt(Big(0, 0, 7)))] : k \in WrongTypeKeys}

\* Keys for the backends that lock a name.
NameKeyInputs ==
    {[key |-> PyStr(Chars(n)), convert |-> NoneV] : n \in NameLengths}
    \cup {[key |-> PyBytes(Chars(n)), convert |-> NoneV] : n \in NameLengths}
    \cup {[key |-> PyInt(i), convert |-> NoneV] :
             i \in {Big(0, 0, 0), Big(0, 0, 7), Big(0, 0, Limb - 1),
                    Big(-1, Limb - 1, Limb - 1)}}
    \cup {[key |-> PyFloat("1.5"), convert |-> NoneV]}
    \cup {[key |-> PyInt(Big(0, 0, 7)), convert |-> Some(PyStr(Chars(n)))] :
             n \in NameLengths}
    \cup {[key |-> PyStr("lock"), convert |-> Some(v)] :
             v \in {PyInt(Big(0, 0, 7)), PyBytes("lock"), PyFloat("1.5")}}
    \cup {[key |-> k, convert |-> Some(PyStr("lock"))] : k \in WrongTypeKeys}

KeyInputs ==
    (IF NameBased THEN NameKeyInputs ELSE IntKeyInputs)
    \cup {[key |-> k, convert |-> NoneV] : k \in WrongTypeKeys}

KeyInit ==
    /\ backend \in Backends
    /\ acquired = [l \in Locks |-> FALSE]
    /\ held = [c \in Conns |-> 0]
    /\ pc = [l \in Locks |-> "idle"]
    /\ call = [l \in Locks |-> NoCall]
    /\ scope = [l \in Locks |-> "out"]
    /\ last = [l \in Locks |-> NoOp]
    /\ owner = [l \in Locks |-> "no"]
    /\ now = 0
    /\ xact = FALSE
    /\ warned = [l \in Locks |-> FALSE]
    /\ key = NoKey
    /\ actual_key = NoKey
    /\ lock_class = find_lock_class(backend, FALSE)
    /\ shared_connection = FALSE

\* A Lock object is constructed for a key: no statement is sent.
Construct ==
    /\ key = NoKey
    /\ \E k \in KeyInputs :
          /\ key' = k
          /\ actual_key' = ActualKey(k)
    /\ UNCHANGED <<backend, acquired, held, pc, call, scope, last, owner, now,
                   xact, warned, lock_class, shared_connection>>

\* The object, or the failed construction, is forgotten.
Discard ==
    /\ key # NoKey
    /\ key' = NoKey
    /\ actual_key' = NoKey
    /\ UNCHANGED <<backend, acquired, held, pc, call, scope, last, owner, now,
                   xact, warned, lock_class, shared_connection>>

KeyNext == Construct \/ Discard

KeySpec == KeyInit /\ [][KeyNext]_vars

(* ---------------------------- named locks ------------------------------ *)
\* A Lock object of a name-based backend is constructed on connection 1, used
\* through acquire and release, and dropped.
NameInit == KeyInit /\ NameBased

\* The constructor returned an object.
Constructed == key # NoKey /\ actual_key.kind # "error"

\* What the constructor works on: the result of convert, custom or default.
Converted == IF key.convert # NoneV THEN Val(key.convert) ELSE DefaultConvert(key.key)

NameAcquire == Constructed /\ AcquireNoTimeout("A")

NameRelease == Constructed /\ Release("A")

\* The object, or the failed construction, is dropped; the next object starts
\* unlocked.  The server keeps what the connection holds.
NameDiscard ==
    /\ key # NoKey
    /\ pc["A"] = "idle"
    /\ key' = NoKey
    /\ actual_key' = NoKey
    /\ acquired' = [acquired EXCEPT !["A"] = FALSE]
    /\ last' = [last EXCEPT !["A"] = NoOp]
    /\ owner' = [owner EXCEPT !["A"] = "no"]
    /\ UNCHANGED <<backend, held, pc, call, scope, now, xact, warned, lock_class,
                   shared_connection>>

NameNext == Construct \/ NameAcquire \/ NameRelease \/ NameDiscard

NameSpec == NameInit /\ [][NameNext]_vars

(* ---------------------------- dispatch --------------------------------- *)
\* create_sadlock and create_async_sadlock: backend is the name of the engine of
\* the connection given, which may be a database this library has no class for.
EngineNames == Backends \cup {"mariadb", "sqlite", "db2"}

DispatchInit ==
    /\ backend \in EngineNames
    /\ acquired = [l \in Locks |-> FALSE]
    /\ held = [c \in Conns |-> 0]
    /\ pc = [l \in Locks |-> "idle"]
    /\ call = [l \in Locks |-> NoCall]
    /\ scope = [l \in Locks |-> "out"]
    /\ last = [l \in Locks |-> NoOp]
    /\ owner = [l \in Locks |-> "no"]
    /\ now = 0
    /\ xact = FALSE
    /\ warned = [l \in Locks |-> FALSE]
    /\ key = NoKey
    /\ actual_key = NoKey
    /\ lock_class = NoClass
    /\ shared_connection = FALSE

\* factory.py: issubclass(cls, BaseSadLock) / issubclass(cls, BaseAsyncSadLock)
is_sadlock_type(c) ==
    c.val[2] \in {"MysqlSadLock", "MssqlSadLock", "OracleSadLock", "PostgresqlSadLock"}

is_async_sadlock_type(c) ==
    c.val[2] \in {"MysqlAsyncSadLock", "MssqlAsyncSadLock", "OracleAsyncSadLock",
                  "PostgresqlAsyncSadLock"}

\* The class create_sadlock (create_async_sadlock) goes on with, or what it raises.
DispatchedClass(is_asyncio) ==
    LET c == find_lock_class(backend, is_asyncio) IN
    IF c.kind = "error" THEN c
    ELSE IF (IF is_asyncio THEN is_async_sadlock_type(c) ELSE is_sadlock_type(c)) THEN c
    ELSE LookupError("TypeError")

\* create_sadlock(connection, key, convert=...): the class is looked up by the
\* engine's name and, when found, called with the key.
create_sadlock(is_asyncio) ==
    /\ lock_class = NoClass
    /\ key = NoKey
    /\ lock_class' = DispatchedClass(is_asyncio)
    /\ IF lock_class'.kind = "error"
       THEN key' = NoKey /\ actual_key' = NoKey
       ELSE \E k \in KeyInputs' :
               /\ key' = k
               /\ actual_key' = ActualKey(k)'
    /\ UNCHANGED <<backend, acquired, held, pc, call, scope, last, owner, now,
                   xact, warned, shared_connection>>

\* The caller drops the object, or the exception.
DispatchDiscard ==
    /\ lock_class # NoClass
    /\ lock_class' = NoClass
    /\ key' = NoKey
    /\ actual_key' = NoKey
    /\ UNCHANGED <<backend, acquired, held, pc, call, scope, last, owner, now,
                   xact, warned, shared_connection>>

DispatchNext ==
    \/ \E is_asyncio \in BOOLEAN : create_sadlock(is_asyncio)
    \/ DispatchDiscard

DispatchSpec == DispatchInit /\ [][DispatchNext]_vars

(* ---------------------------- fairness --------------------------------- *)
\* Time goes on, a client thread that can run does run, and the server answers a
\* waiting statement that it can answer.
FairSpec ==
    /\ Spec
    /\ SF_vars(Tick)
    /\ \A l \in Locks : WF_vars(PollCheck(l))
    /\ \A l \in Locks : WF_vars(PollWake(l))
    /\ \A l \in Locks : WF_vars(DbGrant(l) \/ DbTimeout(l))

(* ---------------------------- properties ------------------------------- *)
Other(l) == CHOOSE b \in Locks : b # l

\* acquire(block=False, timeout=anything)
AcquireNonBlocking(l) ==
    \E timeout \in TimeoutVals : AcquireCall(l, "direct", FALSE, timeout, NoneV)

\* C1: whenever acquire has returned True, on any backend and in any mode, the lock
\* is locked from that moment until release or close is called on it.
C1_LockedWhileOwner ==
    \A l \in Locks : owner[l] = "yes" => acquired[l]

\* C2: a release after a successful acquire returns normally and leaves the lock
\* unlocked, and a release right after that release raises NotLocked.
C2_AcquireReleaseRelease ==
    [][\A l \in Locks :
          Release(l) =>
             /\ owner[l] = "yes" => (last'[l].res = "ok" /\ ~acquired'[l])
             /\ (owner[l] = "released" /\ last[l].op = "release") =>
                   last'[l].res = "NotLocked"]_vars

\* C3: while A holds the key by a successful acquire, a non-blocking acquire of B
\* returns False and leaves B unlocked; the first one after A's release returns
\* True and leaves B locked.
C3_SecondWaitsForRelease ==
    [][\A a \in Locks :
          LET b == Other(a) IN
          (AcquireNonBlocking(b) /\ owner[b] # "yes") =>
             /\ owner[a] = "yes" => (last'[b].res = "False" /\ ~acquired'[b])
             /\ (owner[a] = "released" /\ last[a].op = "release") =>
                   (last'[b].res = "True" /\ acquired'[b])]_vars

\* C4: right after entering the scope the lock is locked; after the scope is left,
\* normally or by an exception, the lock is unlocked, the server holds nothing for
\* its connection and a non-blocking acquire from the other connection succeeds.
C4_ScopeLocksAndFrees ==
    [][\A l \in Locks :
          /\ (last'[l].op = "enter" /\ last'[l].res = "ok") => acquired'[l]
          /\ last'[l].op \in {"exit", "exit_raised"} =>
                (~acquired'[l] /\ held'[connection_or_session(l)] = 0)
          /\ (last[l].op \in {"exit", "exit_raised"} /\ owner[Other(l)] # "yes"
                /\ AcquireNonBlocking(Other(l))) =>
                last'[Other(l)].res = "True"]_vars

C6_ReleaseOnUnlockedRejected ==
    [][\A l \in Locks :
          (~acquired[l] /\ Release(l)) =>
             /\ last'[l] = [op |-> "release", res |-> "NotLocked", sql |-> 0,
                            waited |-> FALSE]
             /\ ~acquired'[l]
             /\ acquired'[Other(l)] = acquired[Other(l)]
             /\ held' = held]_vars

C6_Witness ==
    \E l \in Locks :
        /\ last[l].op = "release"
        /\ last[l].res = "NotLocked"
        /\ ~acquired[l]
        /\ held[connection_or_session(l)] = 0
        /\ acquired[Other(l)]
        /\ held[connection_or_session(Other(l))] > 0

\* C7: when entering the scope of a lock with a contextual timeout raises Timeout,
\* the body is not entered, the lock is unlocked and holds nothing in the server,
\* and a lock holding the key on the other connection is still locked.
C7_TimeoutOnEnter ==
    \A l \in Locks :
        (last[l].op = "enter" /\ last[l].res = "Timeout") =>
           /\ scope[l] = "out"
           /\ ~acquired[l]
           /\ held[connection_or_session(l)] = 0
           /\ held[connection_or_session(Other(l))] > 0 => acquired[Other(l)]

C9_NonBlockingOnce ==
    [][\A l \in Locks :
          (~acquired[l] /\ AcquireNonBlocking(l)) =>
             /\ pc'[l] = "idle"
             /\ last'[l].sql = 1
             /\ ~last'[l].waited
             /\ IF Free(held, connection_or_session(l))
                THEN last'[l].res = "True" /\ acquired'[l]
                ELSE last'[l].res = "False" /\ ~acquired'[l] /\ held' = held]_vars

\* A call that cannot wait for ever: a poll loop, or a statement with a bounded wait.
InBoundedCall(l) ==
    \/ pc[l] \in {"polled", "sleeping"}
    \/ pc[l] = "blocked" /\ call[l].deadline # NoneV

AcquireBounded(l, t) ==
    \E interval \in IntervalVals :
        /\ UsesPoll(TRUE, Some(t)) \/ interval = NoneV
        /\ IF interval = NoneV THEN TRUE ELSE ~IntervalTooSmall(Val(interval))
        /\ AcquireCall(l, "direct", TRUE, Some(t), interval)

\* acquire(block=True, timeout=None)
AcquireUnbounded(l) == AcquireCall(l, "direct", TRUE, NoneV, NoneV)

\* A call that was waiting (in the server or in the poll loop) comes back in this step.
Returns(l) == pc[l] \in {"polled", "sleeping", "blocked"} /\ pc'[l] = "idle"

\* The time the waiting call of l has taken so far.
Elapsed(l) == now - call[l].ts_begin

C12_NoEarlyGiveUp ==
    [][\A l \in Locks :
          /\ (Returns(l) /\ last'[l].res \in {"False", "Timeout"}) =>
                /\ Elapsed(l) >= call[l].timeout
                /\ ~acquired'[l]
                /\ held' = held
          /\ \A t \in 1 .. MaxTimeout :
                (AcquireBounded(l, t) /\ pc'[l] = "idle") => last'[l].res # "False"]_vars

\* C13: when the key becomes free while an acquire with timeout T waits for it, the
\* acquire returns True and leaves the lock locked, whatever the poll interval; it
\* returns False with the key free only if more than T had elapsed.
C13_GrantedWhenReleasedInTime ==
    [][\A l \in Locks :
          (Returns(l) /\ Free(held, connection_or_session(l))) =>
             IF last'[l].res \in {"False", "Timeout"}
             THEN Elapsed(l) > call[l].timeout
             ELSE acquired'[l]]_vars

\* C14: acquire(block=True) with timeout 0 or negative sends the lock statement once
\* and returns without ever sleeping or waiting: True and locked if the key is
\* free, False and unlocked if not.
C14_ZeroTimeoutIsNonBlocking ==
    /\ [](\A l \in Locks :
             (pc[l] = "sleeping" \/ (pc[l] = "blocked" /\ call[l].deadline # NoneV)) =>
                call[l].timeout > 0)
    /\ [][\A l \in Locks : \A t \in {-1, 0} :
             (AcquireBounded(l, t) /\ ~acquired[l]) =>
                IF Free(held, connection_or_session(l))
                THEN /\ pc'[l] = "idle"
                     /\ last'[l] = [op |-> "acquire", res |-> "True", sql |-> 1,
                                    waited |-> FALSE]
                     /\ acquired'[l]
                ELSE /\ held' = held
                     /\ ~acquired'[l]
                     /\ pc'[l] = "idle" =>
                           last'[l] = [op |-> "acquire", res |-> "False", sql |-> 1,
                                       waited |-> FALSE]]_vars

\* C15: acquire(block=True, timeout=None) waits without bound; when it returns it
\* returns True and the lock is locked, never False.
C15_UnboundedReturnsTrue ==
    [][\A l \in Locks :
          /\ (AcquireUnbounded(l) /\ ~acquired[l] /\ pc'[l] = "idle") =>
                (last'[l].res = "True" /\ acquired'[l])
          /\ (AcquireUnbounded(l) /\ ~acquired[l] /\ pc'[l] # "idle") =>
                (pc'[l] = "blocked" /\ call'[l].deadline = NoneV)
          /\ (Returns(l) /\ pc[l] = "blocked" /\ call[l].deadline = NoneV
                /\ call[l].via = "direct") =>
                (last'[l].res = "True" /\ acquired'[l])]_vars

(* ---------------------------- abnormal replies -------------------------- *)
\* C16: a reply of the lock statement outside the backend's success and denial
\* codes makes acquire raise the database error; acquire does not return False,
\* the lock stays unlocked and nothing is held for it.
C16_AbnormalReplyRaises ==
    /\ [](\A ret \in AbnormalReplies : \A block \in BOOLEAN :
             AcquireResult(block, ret) = "DatabaseError")
    /\ [][\A l \in Locks :
             AcquireAbnormal(l) =>
                /\ last'[l].res = "DatabaseError"
                /\ last'[l].sql = 1
                /\ pc'[l] = "idle"
                /\ ~acquired'[l]
                /\ scope'[l] = scope[l]
                /\ held' = held]_vars

C16_Witness ==
    \E l \in Locks :
        /\ last[l].op = "acquire"
        /\ last[l].res = "DatabaseError"
        /\ ~acquired[l]
        /\ held[connection_or_session(l)] = 0

C18_XactReleaseWarns ==
    [][\A l \in Locks :
          /\ (Release(l) /\ owner[l] = "yes" /\ held[connection_or_session(l)] > 0) =>
                /\ last'[l].res = "ok"
                /\ last'[l].sql = 0
                /\ warned'[l]
                /\ held' = held
          /\ (last[l].op = "release" /\ owner[l] = "released"
                /\ held[connection_or_session(l)] > 0
                /\ AcquireNonBlocking(Other(l)) /\ ~acquired[Other(l)]) =>
                last'[Other(l)].res = "False"]_vars

(* ---------------------------- key ranges -------------------------------- *)
\* The constructor was given an integer: as the key, or by the custom convert.
GivenInt ==
    /\ key # NoKey
    /\ IF key.convert # NoneV THEN Val(key.convert).kind = "int" ELSE key.key.kind = "int"

\* That integer.
TheInt == IF key.convert # NoneV THEN Val(key.convert).val ELSE key.key.val

C20_OracleKeyFolded ==
    (backend = "oracle" /\ key # NoKey) =>
       /\ GivenInt =>
             /\ actual_key = PyInt(Big(0, 0, TheInt[3]))
             /\ (TheInt[1] = 0 /\ TheInt[2] = 0) => actual_key = PyInt(TheInt)
       /\ ((key.convert = NoneV /\ key.key.kind \in {"int", "str", "bytes", "float"})
             \/ GivenInt) =>
             /\ actual_key.kind = "int"
             /\ actual_key.val[1] = 0
             /\ actual_key.val[2] = 0
             /\ actual_key.val[3] >= 0
             /\ actual_key.val[3] <= 1073741823

C20_Witness ==
    /\ backend = "oracle"
    /\ GivenInt
    /\ TheInt = Big(-1, Limb - 1, Limb - 1)
    /\ actual_key = PyInt(Big(0, 0, Limb - 1))

\* C22: on every backend, a key of type tuple, dict, set, list or object given
\* without a custom convert makes the construction raise TypeError (InvalidKeyType):
\* no Lock object exists and no statement has been sent.
C22_WrongTypeKeyRejected ==
    (key # NoKey /\ key.convert = NoneV /\ key.key \in WrongTypeKeys) =>
       /\ actual_key = Raised("TypeError")
       /\ \A c \in Conns : held[c] = 0
       /\ \A l \in Locks : last[l] = NoOp

C22_Witness ==
    /\ backend = "mssql"
    /\ key # NoKey
    /\ key.convert = NoneV
    /\ key.key.kind = "dict"
    /\ actual_key = Raised("TypeError")

\* C23: when a custom convert is given, the actual key is decided by what convert
\* returned alone, never by the default conversion of the key, and that result is
\* checked as a default one is: on MySQL and MSSQL a result that is not a str raises
\* TypeError and one longer than the backend's maximum raises ValueError; on
\* PostgreSQL a result that is not an int raises TypeError and one outside
\* -2^63 .. 2^63-1 raises OverflowError; any other result is the actual key.
C23_CustomConvertAlone ==
    (key # NoKey /\ key.convert # NoneV) =>
       LET r == Val(key.convert) IN
       /\ NameBased =>
             actual_key = IF r.kind # "str" THEN Raised("TypeError")
                          ELSE IF Len(r.val[1]) > NameMax THEN Raised("ValueError")
                          ELSE r
       /\ backend = "postgresql" =>
             actual_key = IF r.kind # "int" THEN Raised("TypeError")
                          ELSE IF r.val[1] > 7 \/ r.val[1] < -8 THEN Raised("OverflowError")
                          ELSE r

C23_Witness ==
    /\ backend = "mysql"
    /\ key # NoKey
    /\ key.key \in WrongTypeKeys
    /\ key.convert = Some(PyStr("lock"))
    /\ actual_key = PyStr("lock")

\* C21: on MySQL and MSSQL a key whose converted text has exactly the maximum
\* length (64, 255) constructs a Lock whose acquire returns True and whose release
\* after that returns normally and gives the hold back; a key of one character
\* more makes the construction raise ValueError (KeyTooLong) with no statement sent.
C21_MaxLengthNameUsable ==
    [][/\ (Construct /\ Converted'.kind = "str") =>
             /\ Len(Converted'.val[1]) = NameMax => actual_key' = Converted'
             /\ Len(Converted'.val[1]) = NameMax + 1 =>
                   (actual_key' = Raised("ValueError") /\ held' = held /\ last' = last)
       /\ (Constructed /\ Len(actual_key.val[1]) = NameMax) =>
             /\ (NameAcquire /\ owner["A"] = "no") => last'["A"].res = "True"
             /\ (NameRelease /\ owner["A"] = "yes") =>
                   /\ last'["A"].res = "ok"
                   /\ held'[1] = held[1] - 1]_vars

\* C24: when the engine's name is not a key of the registry table, sync or async,
\* the dispatch raises (KeyError, UnsupportedBackend): no class is chosen in its
\* place and no Lock object is constructed.
C24_UnknownDialectRejected ==
    (lock_class # NoClass
       /\ backend \notin {"mysql", "mariadb", "mssql", "oracle", "postgresql"}) =>
       /\ lock_class = LookupError("KeyError")
       /\ key = NoKey
       /\ actual_key = NoKey

C24_Witness ==
    /\ backend = "sqlite"
    /\ lock_class = LookupError("KeyError")
    /\ key = NoKey

\* C25: on PostgreSQL, acquire(block=True, timeout=T, interval=I) on an unlocked
\* lock with I below the minimum interval raises ValueError (InvalidInterval)
\* before any try statement is sent: nothing is granted, the lock stays unlocked.
C25_SmallIntervalRejected ==
    [][\A l \in Locks : \A t \in -1 .. MaxTimeout, i \in -1 .. MaxInterval :
          (backend = "postgresql" /\ ~acquired[l] /\ i < SLEEP_INTERVAL_MIN
             /\ AcquireCall(l, "direct", TRUE, Some(t), Some(i))) =>
             /\ last'[l] = [op |-> "acquire", res |-> "InvalidInterval", sql |-> 0,
                            waited |-> FALSE]
             /\ pc'[l] = "idle"
             /\ ~acquired'[l]
             /\ held' = held]_vars

C25_Witness ==
    \E l \in Locks :
        /\ backend = "postgresql"
        /\ last[l].op = "acquire"
        /\ last[l].res = "InvalidInterval"
        /\ last[l].sql = 0
        /\ ~acquired[l]
        /\ held[connection_or_session(l)] = 0
(* ---------------------------- the poll loop on an ideal client --------- *)
\* PostgreSQL only.  A statement takes no time and sleep(interval) lasts exactly
\* interval: the clock does not move between a try and the expiry test that
\* follows it, nor past the end of a sleep.
PromptInit == Init /\ backend = "postgresql"

PromptTick ==
    /\ \A l \in Locks :
          /\ pc[l] # "polled"
          /\ pc[l] = "sleeping" => now < call[l].wake
    /\ Tick

\* acquire(block=True, timeout=t, interval=i) with an allowed interval, and
\* acquire(block=False) by which the other connection takes the key.
PromptNext ==
    \/ PromptTick
    \/ \E l \in Locks : AcquireNonBlocking(l)
    \/ \E l \in Locks, t \in -1 .. MaxTimeout : AcquireBounded(l, t)
    \/ \E l \in Locks : PollCheck(l)
    \/ \E l \in Locks : PollWake(l)
    \/ \E c \in Conns : HoldsDropped(c)

PromptSpec == PromptInit /\ [][PromptNext]_vars

\* C26: in the PostgreSQL poll loop, with statements that take no time, an
\* acquire(block=True, timeout=T, interval=I) that finds the key held at every try
\* returns False when at least T and at most T + I have passed since it started.
C26_FalseWithinOneInterval ==
    [][\A l \in Locks :
          (PollCheck(l) /\ pc'[l] = "idle") =>
             /\ last'[l].res = "False"
             /\ Elapsed(l) >= call[l].timeout
             /\ Elapsed(l) <= call[l].timeout + call[l].interval]_vars

C26_Witness ==
    \E l \in Locks :
        /\ pc[l] = "polled"
        /\ call[l].timeout > 0
        /\ call[l].tries > 1
        /\ Elapsed(l) = call[l].timeout + call[l].interval
        /\ held[connection_or_session(Other(l))] > 0

\* C27: with PostgreSQL transaction-level locks, while the transaction in which A
\* acquired the key is open, a non-blocking acquire of B returns False and is
\* granted nothing; once that transaction has committed or rolled back, A never
\* having called release, a non-blocking acquire of B returns True and holds the key.
C27_XactFreedByTransactionEnd ==
    [][\A a \in Locks :
          LET b == Other(a)
              ca == connection_or_session(a)
              cb == connection_or_session(b)
          IN  (xact /\ owner[a] = "yes" /\ held[cb] = 0
                 /\ AcquireCall(b, "direct", FALSE, NoneV, NoneV)) =>
                 /\ held[ca] > 0 => (last'[b].res = "False" /\ held' = held)
                 /\ held[ca] = 0 => (last'[b].res = "True" /\ held'[cb] = 1)]_vars

C27_Witness ==
    \E a \in Locks :
        /\ xact
        /\ owner[a] = "yes"
        /\ last[a].op = "acquire"
        /\ held[connection_or_session(a)] = 0
        /\ last[Other(a)] = [op |-> "acquire", res |-> "True", sql |-> 1, waited |-> FALSE]
        /\ held[connection_or_session(Other(a))] = 1

\* C28: when the connection raises while it executes the lock or the unlock
\* statement, the exception leaves acquire or release, and the lock is locked or
\* unlocked as it was before the call.
C28_ConnectionErrorPropagates ==
    [][\A l \in Locks :
          (AcquireConnError(l) \/ ReleaseConnError(l)) =>
             /\ last'[l].res = "ConnectionError"
             /\ last'[l].op \in {"acquire", "release"}
             /\ acquired'[l] = acquired[l]
             /\ pc'[l] = "idle"]_vars

C28_Witness ==
    \E l \in Locks :
        /\ last[l].op = "release"
        /\ last[l].res = "ConnectionError"
        /\ acquired[l]

\* C29: the locked state belongs to the thread: when one thread has acquired the
\* Lock and another thread, which has not, calls release on the same object, the
\* call raises ValueError (NotLocked) and sends no unlock statement; the hold and
\* the first thread's locked state are as before.
C29_ReleaseFromOtherThread ==
    [][\A a \in Locks :
          LET b == Other(a) IN
          (shared_connection /\ owner[a] = "yes" /\ owner[b] = "no" /\ Release(b)) =>
             /\ last'[b] = [op |-> "release", res |-> "NotLocked", sql |-> 0,
                            waited |-> FALSE]
             /\ held' = held
             /\ acquired' = acquired]_vars

C29_Witness ==
    \E a \in Locks :
        /\ shared_connection
        /\ owner[a] = "yes"
        /\ acquired[a]
        /\ owner[Other(a)] = "no"
        /\ last[Other(a)].op = "release"
        /\ last[Other(a)].res = "NotLocked"
        /\ held[1] = 1

\* C30: on MySQL, when a Lock on a connection is locked, acquire on a second Lock
\* of the same connection and key returns True at once and both are locked; as
\* long as one of the two is locked the server holds the key for the connection,
\* so no other connection can get it.
C30_SameConnectionNests ==
    /\ [][\A a \in Locks :
             LET b == Other(a) IN
             (backend = "mysql" /\ shared_connection /\ acquired[a] /\ ~acquired[b]
                /\ Acquire(b)) =>
                /\ last'[b] = [op |-> "acquire", res |-> "True", sql |-> 1,
                               waited |-> FALSE]
                /\ acquired'[a]
                /\ acquired'[b]
                /\ now' = now]_vars
    /\ []((backend = "mysql" /\ shared_connection) =>
             /\ (\E l \in Locks : acquired[l]) => ~Free(held, 2)
             /\ held[1] = Cardinality({l \in Locks : acquired[l]}))

C30_Witness ==
    /\ backend = "mysql"
    /\ shared_connection
    /\ acquired["B"]
    /\ ~acquired["A"]
    /\ last["A"].op = "release"
    /\ last["A"].res = "ok"
    /\ last["B"].op = "acquire"
    /\ held[1] = 1

\* C31: an acquire(block=True, timeout=None) that found the key held by another
\* connection returns only when the key is no longer held there, and then it
\* returns True and the lock is locked.
C31_BlockingWaitsThenLocks ==
    [][\A l \in Locks :
          (pc[l] = "blocked" /\ call[l].deadline = NoneV /\ pc'[l] = "idle") =>
             /\ Free(held, connection_or_session(l))
             /\ last'[l].res \in {"True", "ok"}
             /\ held'[connection_or_session(l)] > 0
             /\ acquired'[l]]_vars

(* ---------------------------- the asyncio classes ------------------------ *)
\* Every lock is made by create_async_sadlock: its class comes from ASYNCIO_REGISTRY.
AsyncInit ==
    /\ backend \in Backends
    /\ acquired = [l \in Locks |-> FALSE]
    /\ held = [c \in Conns |-> 0]
    /\ pc = [l \in Locks |-> "idle"]
    /\ call = [l \in Locks |-> NoCall]
    /\ scope = [l \in Locks |-> "out"]
    /\ last = [l \in Locks |-> NoOp]
    /\ owner = [l \in Locks |-> "no"]
    /\ now = 0
    /\ xact = FALSE
    /\ warned = [l \in Locks |-> FALSE]
    /\ key = NoKey
    /\ actual_key = NoKey
    /\ lock_class = find_lock_class(backend, TRUE)
    /\ shared_connection = FALSE

\* BaseAsyncSadLock.acquire and BaseAsyncSadLock.release are abstract methods whose
\* body is "raise NotImplementedError()". MysqlAsyncSadLock overrides both; the
\* classes of the other backends define do_acquire and do_release, which no method
\* of BaseAsyncSadLock calls.
DefinesAcquire == lock_class.val[2] = "MysqlAsyncSadLock"

\* MysqlAsyncSadLock.acquire: what it returns or raises for the reply of GET_LOCK.
AsyncAcquireResult(ret) ==
    IF ret.isNull THEN "DatabaseError"
    ELSE IF ret.val = 1 THEN "True"
    ELSE IF ret.val = 0 THEN "False"
    ELSE "DatabaseError"

\* MysqlAsyncSadLock.acquire: "if ret_val == 1: self._acquired = True"
AsyncAcquiredAfterAcquire(l, ret) ==
    IF ~ret.isNull /\ ret.val = 1 THEN TRUE ELSE acquired[l]

AsyncReplied(l, via, ret, sql, waited, h) ==
    Finish(l, via, AsyncAcquireResult(ret), sql, waited, AsyncAcquiredAfterAcquire(l, ret), h)

\* await acquire(block, timeout), called directly or by __aenter__.
AsyncAcquireCall(l, via, block, timeout) ==
    /\ pc[l] = "idle"
    /\ CanStart(l, block, timeout, NoneV)
    /\ LET c == connection_or_session(l)
           param == IF block
                    THEN IF timeout = NoneV THEN -1 ELSE NormalizeTimeout(Val(timeout))
                    ELSE 0
           w == IF param < 0 THEN NoneV ELSE Some(param)
       IN  IF ~DefinesAcquire
           THEN Finish(l, via, "NotImplementedError", 0, FALSE, acquired[l], held)
           ELSE IF acquired[l]
           THEN Finish(l, via, "AlreadyLocked", 0, FALSE, acquired[l], held)
           ELSE IF Free(held, c)
           THEN AsyncReplied(l, via, DbLockReply(held, c, TRUE, FALSE), 1, FALSE,
                             DbLockHeld(held, c))
           ELSE IF w = Some(0)
           THEN AsyncReplied(l, via, DbLockReply(held, c, FALSE, FALSE), 1, FALSE, held)
           ELSE Suspend(l, "blocked",
                        [via |-> via,
                         timeout |-> IF timeout = NoneV THEN 0
                                     ELSE NormalizeTimeout(Val(timeout)),
                         interval |-> 0, ts_begin |-> now, wake |-> 0,
                         deadline |-> IF w = NoneV THEN NoneV ELSE Some(now + Val(w)),
                         tries |-> 1, waited |-> TRUE])

AsyncAcquire(l) ==
    \E block \in BOOLEAN, timeout \in TimeoutVals : AsyncAcquireCall(l, "direct", block, timeout)

\* __aenter__: await acquire() or await acquire(timeout=contextual_timeout).
AsyncEnter(l) ==
    /\ scope[l] = "out"
    /\ AsyncAcquireCall(l, "enter", TRUE, contextual_timeout[l])

\* The server grants the awaited GET_LOCK as soon as the key is free.
AsyncDbGrant(l) ==
    /\ pc[l] = "blocked"
    /\ Free(held, connection_or_session(l))
    /\ LET c == connection_or_session(l) IN
       AsyncReplied(l, call[l].via, DbLockReply(held, c, TRUE, TRUE), call[l].tries,
                    call[l].waited, DbLockHeld(held, c))

\* The server answers the awaited GET_LOCK when its wait is over.
AsyncDbTimeout(l) ==
    /\ pc[l] = "blocked"
    /\ call[l].deadline # NoneV
    /\ now >= Val(call[l].deadline)
    /\ ~Free(held, connection_or_session(l))
    /\ LET c == connection_or_session(l) IN
       AsyncReplied(l, call[l].via, DbLockReply(held, c, FALSE, TRUE), call[l].tries,
                    call[l].waited, held)

\* await release(): MysqlAsyncSadLock.release clears _acquired on 1, 0 and NULL and
\* raises on 0 and NULL.
AsyncReleaseCall(l, op, sc) ==
    LET c == connection_or_session(l)
        ret == DbUnlockReply(held, c)
    IN  IF ~DefinesAcquire
        THEN Complete(l, op, "NotImplementedError", 0, FALSE, acquired[l], held, sc,
                      Called(l), FALSE)
        ELSE IF ~acquired[l]
        THEN Complete(l, op, "NotLocked", 0, FALSE, acquired[l], held, sc, Called(l), FALSE)
        ELSE Complete(l, op,
                      IF ~ret.isNull /\ ret.val = 1 THEN "ok" ELSE "DatabaseError",
                      1, FALSE,
                      IF ret.isNull \/ ret.val \in {0, 1} THEN FALSE ELSE acquired[l],
                      DbUnlockHeld(held, c), sc, Called(l), FALSE)

AsyncRelease(l) ==
    /\ pc[l] = "idle"
    /\ AsyncReleaseCall(l, "release", scope[l])

\* await close(): "if self._acquired: await self.release()"
AsyncCloseCall(l, op, sc) ==
    IF acquired[l]
    THEN AsyncReleaseCall(l, op, sc)
    ELSE Complete(l, op, "ok", 0, FALSE, acquired[l], held, sc, Called(l), FALSE)

AsyncClose(l) ==
    /\ pc[l] = "idle"
    /\ AsyncCloseCall(l, "close", scope[l])

\* __aexit__: await close()
AsyncExit(l) ==
    /\ pc[l] = "idle"
    /\ scope[l] = "body"
    /\ \E raised \in BOOLEAN :
          AsyncCloseCall(l, IF raised THEN "exit_raised" ELSE "exit", "out")

AsyncNext ==
    \/ Tick
    \/ \E l \in Locks : AsyncAcquire(l)
    \/ \E l \in Locks : AsyncEnter(l)
    \/ \E l \in Locks : AsyncDbGrant(l)
    \/ \E l \in Locks : AsyncDbTimeout(l)
    \/ \E l \in Locks : AsyncRelease(l)
    \/ \E l \in Locks : AsyncClose(l)
    \/ \E l \in Locks : AsyncExit(l)

AsyncSpec == AsyncInit /\ [][AsyncNext]_vars

\* C32: every step of a lock made by create_async_sadlock is the step the synchronous
\* lock of the same backend takes for the same call in the same state with the same
\* reply of the database: same return value or error, same locked state, same SQL.
C32_AsyncFollowsSync ==
    [][\A l \in Locks :
          /\ \A block \in BOOLEAN, timeout \in TimeoutVals :
                AsyncAcquireCall(l, "direct", block, timeout)
                   => AcquireCall(l, "direct", block, timeout, NoneV)
          /\ AsyncEnter(l) => Enter(l)
          /\ AsyncDbGrant(l) => DbGrant(l)
          /\ AsyncDbTimeout(l) => DbTimeout(l)
          /\ AsyncRelease(l) => Release(l)
          /\ AsyncClose(l) => Close(l)
          /\ AsyncExit(l) => Exit(l)]_vars

(* ---------------------------- one object's life ------------------------- *)
\* A Lock object of any backend (PostgreSQL: session-level or transaction-level) is
\* constructed on connection 1, used through acquire, release and close, and dropped.
FrameInit ==
    /\ backend \in Backends
    /\ acquired = [l \in Locks |-> FALSE]
    /\ held = [c \in Conns |-> 0]
    /\ pc = [l \in Locks |-> "idle"]
    /\ call = [l \in Locks |-> NoCall]
    /\ scope = [l \in Locks |-> "out"]
    /\ last = [l \in Locks |-> NoOp]
    /\ owner = [l \in Locks |-> "no"]
    /\ now = 0
    /\ xact \in (IF backend = "postgresql" THEN BOOLEAN ELSE {FALSE})
    /\ warned = [l \in Locks |-> FALSE]
    /\ key = NoKey
    /\ actual_key = NoKey
    /\ lock_class = find_lock_class(backend, FALSE)
    /\ shared_connection = FALSE

\* a constructor that leaves the new object locked
InitialAcquired_Locked == TRUE

\* base.py, __init__: "self._acquired = False"
InitialAcquired == FALSE

\* __init__ of the class: the mixin converts and checks the key, BaseSadLock.__init__
\* then stores the state of the new object.  No statement is sent.
FrameConstruct ==
    /\ key = NoKey
    /\ \E k \in KeyInputs :
          /\ key' = k
          /\ actual_key' = ActualKey(k)
          /\ acquired' = IF ActualKey(k).kind = "error" THEN acquired
                          ELSE [acquired EXCEPT !["A"] = InitialAcquired]
    /\ last' = [last EXCEPT !["A"] = NoOp]
    /\ owner' = [owner EXCEPT !["A"] = "no"]
    /\ scope' = [scope EXCEPT !["A"] = "out"]
    /\ UNCHANGED <<backend, held, pc, call, now, xact, warned, lock_class,
                   shared_connection>>

FrameNext ==
    \/ FrameConstruct
    \/ NameAcquire
    \/ NameRelease
    \/ Constructed /\ Close("A")
    \/ Constructed /\ Enter("A")
    \/ Constructed /\ Exit("A")
    \/ Discard

FrameSpec == FrameInit /\ [][FrameNext]_vars

\* C33: the constructor sends no statement and returns an unlocked object, and while
\* the object exists no operation changes its connection, its key, its actual key or
\* its mode.
C33_FreshUnlockedAndFrame ==
    [][/\ (key = NoKey /\ Constructed') =>
             /\ ~acquired'["A"]
             /\ held' = held
             /\ last'["A"].sql = 0
       /\ (key # NoKey /\ key' # NoKey) =>
             /\ key' = key
             /\ actual_key' = actual_key
             /\ connection_or_session("A")' = connection_or_session("A")
             /\ xact' = xact
             /\ lock_class' = lock_class]_vars

\* An object was constructed, acquired, and released.
C33_Witness ==
    /\ Constructed
    /\ owner["A"] = "released"
    /\ last["A"].op \in {"release", "close"}

\* 2^64 - 1 and 2^64
UINT64_MAX == Big(15, Limb - 1, Limb - 1)
UINT64_OVER == Big(16, 0, 0)

C36_FalseLeavesNothingHeld ==
    [][\A l \in Locks :
          /\ (pc[l] # "idle" /\ pc'[l] # "idle") =>
                held'[connection_or_session(l)] <= held[connection_or_session(l)]
          /\ (last'[l] # last[l] /\ last'[l].op = "acquire" /\ last'[l].res = "False") =>
                /\ held' = held
                /\ last'[l].sql >= 1
                /\ pc'[l] = "idle"
                /\ call'[l] = NoCall]_vars

\* An acquire that waited while the other connection held the key returned False.
C36_Witness ==
    \E l \in Locks :
        /\ last[l].op = "acquire"
        /\ last[l].res = "False"
        /\ last[l].waited
        /\ held[connection_or_session(l)] = 0
        /\ held[connection_or_session(Other(l))] > 0

(* ---------------------------- locks and transactions -------------------- *)
\* Every backend, and for PostgreSQL (xact=True) and Oracle (release_on_commit=True)
\* also the locks that the server drops when the transaction ends.
HeldInit ==
    /\ backend \in Backends
    /\ acquired = [l \in Locks |-> FALSE]
    /\ held = [c \in Conns |-> 0]
    /\ pc = [l \in Locks |-> "idle"]
    /\ call = [l \in Locks |-> NoCall]
    /\ scope = [l \in Locks |-> "out"]
    /\ last = [l \in Locks |-> NoOp]
    /\ owner = [l \in Locks |-> "no"]
    /\ now = 0
    /\ xact \in (IF backend \in {"postgresql", "oracle"} THEN BOOLEAN ELSE {FALSE})
    /\ warned = [l \in Locks |-> FALSE]
    /\ key = NoKey
    /\ actual_key = NoKey
    /\ lock_class = find_lock_class(backend, FALSE)
    /\ shared_connection \in BOOLEAN

HeldSpec == HeldInit /\ [][XactNext]_vars

C38_SecondReleaseNotHeld ==
    [][\A l \in Locks :
          (/\ backend = "oracle"
           /\ shared_connection
           /\ owner[l] = "yes"
           /\ Release(l)) =>
              IF owner[Other(l)] = "yes" /\ held[connection_or_session(l)] > 0
              THEN /\ last'[l].res = "ok"
                   /\ last'[l].sql = 1
                   /\ held'[connection_or_session(l)] = 0
              ELSE (owner[Other(l)] = "released" /\ held[connection_or_session(l)] = 0) =>
                      /\ last'[l].res = "DatabaseError"
                      /\ last'[l].sql = 1
                      /\ held' = held]_vars

(* ---------------------------- holds lost in the server ------------------ *)
\* acquire, release and close called directly, while the server may drop the holds
\* of a session.
DropNext ==
    \/ \E l \in Locks : AcquireNoTimeout(l)
    \/ \E l \in Locks : DbGrant(l)
    \/ \E l \in Locks : Release(l)
    \/ \E l \in Locks : Close(l)
    \/ \E c \in Conns : HoldsDropped(c)

DropSpec == Init /\ [][DropNext]_vars

\* C39: on MySQL a release that raises the database error (RELEASE_LOCK replied 0 or
\* NULL) leaves the lock unlocked; a close() that follows sends nothing and returns,
\* and an acquire() that follows is not rejected: it sends GET_LOCK.
C39_FailedReleaseUnlocks ==
    [][\A l \in Locks :
          backend = "mysql" =>
             /\ (Release(l) /\ last'[l] # last[l] /\ last'[l].res = "DatabaseError") =>
                   /\ acquired[l]
                   /\ ~acquired'[l]
                   /\ last'[l].sql = 1
             /\ (last[l].op = "release" /\ last[l].res = "DatabaseError") =>
                   /\ Close(l) =>
                         /\ last'[l].res = "ok"
                         /\ last'[l].sql = 0
                         /\ held' = held
                   /\ AcquireNoTimeout(l) =>
                         \/ pc'[l] = "blocked"
                         \/ last'[l].op = "acquire" /\ last'[l].sql = 1
                              /\ last'[l].res \in {"True", "False"}]_vars

\* A MySQL release got reply 0, the key being held by the other connection by then,
\* raised the database error and left the lock unlocked.
C39_Witness ==
    \E l \in Locks :
        /\ backend = "mysql"
        /\ last[l].op = "release"
        /\ last[l].res = "DatabaseError"
        /\ last[l].sql = 1
        /\ ~acquired[l]
        /\ held[connection_or_session(Other(l))] > 0

(* ---------------------------- asyncio/lock/postgresql.py ---------------- *)
\* The PostgresqlAsyncSadLock of the asyncio package, reached through
\* asyncio/factory.py, with xact=True: acquire and release are written out in the
\* class and assign _acquired themselves.
LegacyReplied(l, block, ret, sql, waited, h) ==
    LET got == IF block THEN TRUE ELSE ~ret.isNull /\ ret.val # 0
    IN  Finish(l, "direct", IF got THEN "True" ELSE "False", sql, waited, got, h)

\* await acquire(block) without a timeout
LegacyAsyncAcquire(l) ==
    /\ pc[l] = "idle"
    /\ held[connection_or_session(l)] < MaxHold
    /\ \E block \in BOOLEAN :
          LET c == connection_or_session(l) IN
          IF acquired[l]
          THEN Finish(l, "direct", "AlreadyLocked", 0, FALSE, acquired[l], held)
          ELSE IF Free(held, c)
          THEN LegacyReplied(l, block, DbLockReply(held, c, TRUE, FALSE), 1, FALSE,
                             DbLockHeld(held, c))
          ELSE IF ~block
          THEN LegacyReplied(l, block, DbLockReply(held, c, FALSE, FALSE), 1, FALSE, held)
          ELSE Suspend(l, "blocked",
                       [via |-> "direct", timeout |-> 0, interval |-> 0, ts_begin |-> now,
                        wake |-> 0, deadline |-> NoneV, tries |-> 1, waited |-> TRUE])

\* The server grants the awaited pg_advisory_xact_lock as soon as the key is free.
LegacyAsyncGrant(l) ==
    /\ pc[l] = "blocked"
    /\ Free(held, connection_or_session(l))
    /\ LET c == connection_or_session(l) IN
       LegacyReplied(l, TRUE, DbLockReply(held, c, TRUE, TRUE), call[l].tries,
                     call[l].waited, DbLockHeld(held, c))

\* await release(): with no unlock statement it warns and returns, before the check
\* of _acquired and without assigning it; else it checks, unlocks and clears.
LegacyAsyncReleaseCall(l, op) ==
    LET c == connection_or_session(l)
        ret == DbUnlockReply(held, c)
    IN  IF xact
        THEN Complete(l, op, "ok", 0, FALSE, acquired[l], held, scope[l], Called(l), TRUE)
        ELSE IF ~acquired[l]
        THEN Complete(l, op, "NotLocked", 0, FALSE, acquired[l], held, scope[l],
                      Called(l), FALSE)
        ELSE Complete(l, op,
                      IF ~ret.isNull /\ ret.val # 0 THEN "ok" ELSE "DatabaseError",
                      1, FALSE, FALSE, DbUnlockHeld(held, c), scope[l], Called(l), FALSE)

LegacyAsyncRelease(l) ==
    /\ pc[l] = "idle"
    /\ LegacyAsyncReleaseCall(l, "release")

\* await close(): "if self._acquired: await self.release()"
LegacyAsyncClose(l) ==
    /\ pc[l] = "idle"
    /\ IF acquired[l]
       THEN LegacyAsyncReleaseCall(l, "close")
       ELSE Complete(l, "close", "ok", 0, FALSE, acquired[l], held, scope[l], Called(l), FALSE)

LegacyNext ==
    \/ \E l \in Locks : LegacyAsyncAcquire(l)
    \/ \E l \in Locks : LegacyAsyncGrant(l)
    \/ \E l \in Locks : LegacyAsyncRelease(l)
    \/ \E l \in Locks : LegacyAsyncClose(l)
    \/ \E c \in Conns : Commit(c)

LegacySpec == XactInit /\ [][LegacyNext]_vars

\* C40: a PostgreSQL transaction-level lock whose acquire returned True and whose
\* transaction has ended since (the server holds nothing for its connection) accepts
\* acquire again: the call sends the lock statement and waits in the server or
\* returns True or False; it is not rejected as already locked.
C40_XactLockReusable ==
    [][\A l \in Locks :
          (/\ backend = "postgresql"
           /\ xact
           /\ owner[l] \in {"yes", "released"}
           /\ held[connection_or_session(l)] = 0
           /\ (AcquireNoTimeout(l) \/ LegacyAsyncAcquire(l))) =>
              \/ pc'[l] = "blocked"
              \/ /\ last'[l].op = "acquire"
                 /\ last'[l].sql = 1
                 /\ last'[l].res \in {"True", "False"}]_vars
====
